---- MODULE Spec2Model ----
(***************************************************************************)
(* Flamesblue orders backend: the Order/OrderItem/Payment schemas          *)
(* (schemas.py), the document codec serialize_doc and the three order      *)
(* endpoints GET /api/orders, POST /api/orders and                         *)
(* PATCH /api/orders/{order_id}/status (main.py), run by concurrent        *)
(* request workers against one "order" collection.                         *)
(*                                                                         *)
(* Fault model: the process-wide handle db is set once at start, null or   *)
(* live, and stays so; a store operation on a live handle completes.       *)
(* Request validation (the framework building Order or StatusUpdate from   *)
(* the body) precedes the handler body and answers 422.                    *)
(***************************************************************************)
EXTENDS Integers, Sequences, FiniteSets, TLC

VARIABLES
    db,        \* the process-wide store handle: "live" or "null"
    store,     \* the "order" collection: documents in insertion order
    nextOid,   \* the next ObjectId the store assigns
    pc,        \* per worker: "idle", or "find" between update_one and find_one
    req,       \* per worker: the PATCH in flight (order_id, status)
    last,      \* the handler step taken last: request, answer code, answer body
    issued,    \* the ids POST /api/orders has answered, in creation order
    cdoc,      \* codec specification: the document under test
    cstage,    \* codec specification: how often serialize_doc was applied
    cout       \* codec specification: the outputs of the applications

vars == <<db, store, nextOid, pc, req, last, issued, cdoc, cstage, cout>>
sysvars == <<db, store, nextOid, pc, req, last, issued>>
codecvars == <<cdoc, cstage, cout>>

---------------------------------------------------------------------------
(* Bounds of the model *)

\* How many orders the collection may hold.
MaxOrders == 2

\* The request workers (the framework runs sync handlers on a thread pool).
Workers == {"w1", "w2"}

---------------------------------------------------------------------------
(* Values of a document: tagged, so that values of different Python types  *)
(* compare unequal.                                                        *)

None == [t |-> "none"]
Str(s) == [t |-> "str", s |-> s]          \* text
Txt(c) == [t |-> "str", c |-> c]          \* text kept as its characters
Num(n) == [t |-> "num", n |-> n]
Dt(n) == [t |-> "datetime", n |-> n]      \* datetime number n
Date(n) == [t |-> "date", n |-> n]        \* the date of datetime n
Oid(b) == [t |-> "ObjectId", b |-> b]    \* ObjectId of hex digit values b
List(l) == [t |-> "list", l |-> l]
Map(m) == [t |-> "dict", m |-> m]

EmptyDoc == [k \in {} |-> None]

\* The length of an ObjectId's hex form.
IdLen == 24

HexDigits == <<"0", "1", "2", "3", "4", "5", "6", "7",
               "8", "9", "a", "b", "c", "d", "e", "f">>

HexChars == {HexDigits[i] : i \in 1..16} \cup {"A", "B", "C", "D", "E", "F"}

\* The value of each hex character, in either case.
HexValues ==
    [c \in HexChars |->
        CASE c \in {"a", "A"} -> 10
          [] c \in {"b", "B"} -> 11
          [] c \in {"c", "C"} -> 12
          [] c \in {"d", "D"} -> 13
          [] c \in {"e", "E"} -> 14
          [] c \in {"f", "F"} -> 15
          [] OTHER -> CHOOSE i \in 0..9 : HexDigits[i + 1] = c]

HexVal(c) == HexValues[c]

\* The k-th hex digit of n from the right (k = 0 is the last). The store's
\* counter stays below 16^7 in the model, so every higher digit is 0.
HexDigitAt(n, k) == IF k >= 7 THEN 0 ELSE (n \div (16 ^ k)) % 16

\* The n-th ObjectId the store hands out, as its 24 hex digit values.
NewObjectId(n) == [i \in 1..IdLen |-> HexDigitAt(n, IdLen - i)]

\* str(ObjectId): 24 lower-case hex characters.
OidStr(b) == [i \in 1..Len(b) |-> HexDigits[b[i] + 1]]

\* ObjectId.is_valid on a str: 24 hex characters.
is_valid(s) == Len(s) = IdLen /\ \A i \in 1..Len(s) : s[i] \in HexChars

\* ObjectId(order_id): the identifier a valid hex string denotes, in either
\* case of its letters.
ObjectId(s) == [i \in 1..Len(s) |-> HexVal(s[i])]

\* hasattr(v, "isoformat"): datetime and date values.
HasIsoformat(v) == v.t \in {"datetime", "date"}

\* v.isoformat() of datetime (or date) number n.
IsoText(v) ==
    IF v.t = "date"
    THEN CASE v.n = 1 -> "2026-01-01"
           [] v.n = 2 -> "2026-02-02"
           [] OTHER -> "2026-03-03"
    ELSE CASE v.n = 1 -> "2026-01-01T10:00:00"
           [] v.n = 2 -> "2026-02-02T20:30:00"
           [] OTHER -> "2026-03-03T00:00:00"

\* A faulty variant: the datetime is cut to its date, which still has isoformat.
IsoformatAsDate(v) == IF v.t = "datetime" THEN Date(v.n) ELSE Str(IsoText(v))

\* out[k] = v.isoformat()
Isoformat(v) == Str(IsoText(v))

\* A faulty variant: the id is added and _id is kept.
RenameIdKeeping(doc) ==
    IF "_id" \in DOMAIN doc
    THEN [k \in DOMAIN doc \cup {"id"} |->
            IF k = "id" THEN Txt(OidStr(doc["_id"].b)) ELSE doc[k]]
    ELSE doc

\* out = {**doc}; if "_id" in out: out["id"] = str(out.pop("_id"))
\* (str of an ObjectId is its hex form; str of a str is the str itself).
RenameId(doc) ==
    IF "_id" \in DOMAIN doc
    THEN [k \in (DOMAIN doc \ {"_id"}) \cup {"id"} |->
            IF k = "id"
            THEN IF doc["_id"].t = "ObjectId"
                 THEN Txt(OidStr(doc["_id"].b))
                 ELSE doc["_id"]
            ELSE doc[k]]
    ELSE doc

\* serialize_doc: rename _id to id, then turn each top-level value that has
\* isoformat into its ISO string.
serialize_doc(doc) ==
    LET out == RenameId(doc)
    IN  [k \in DOMAIN out |->
            IF HasIsoformat(out[k]) THEN Isoformat(out[k]) ELSE out[k]]

---------------------------------------------------------------------------
(* schemas.py *)

ServiceTypes == {"wash_fold", "dry_clean", "iron_only"}

PaymentMethods == {"cod", "card"}

PaymentStatuses == {"PENDING", "SUCCESS", "FAILED"}

\* Order.status: the Literal, in its declared order.
StatusOrder == <<"PENDING", "DRIVER_ASSIGNED", "PICKED_UP", "IN_WASH",
                 "OUT_FOR_DELIVERY", "DELIVERED">>

OrderStatus == {StatusOrder[i] : i \in 1..Len(StatusOrder)}

IsStr(v) == v.t = "str" /\ "s" \in DOMAIN v

\* A faulty variant: any text is taken for a member of the Literal.
LiteralAnyText(v, allowed) == IsStr(v)

\* Literal[...]: the value is one of the listed strings.
InLiteral(v, allowed) == IsStr(v) /\ v.s \in allowed

\* A faulty variant: the bound is not checked.
GeUnchecked(v, bound) == v.t = "num"

\* Field(..., ge=bound) on a number.
Ge(v, bound) == v.t = "num" /\ v.n >= bound

\* Optional[str]
OptStr(v) == v = None \/ IsStr(v)

\* datetime from its ISO-8601 text (the JSON form of a datetime), else None.
ParseDatetime(v) ==
    IF v.t = "datetime" THEN v
    ELSE IF IsStr(v) /\ \E n \in 1..2 : Isoformat(Dt(n)) = v
         THEN Dt(CHOOSE n \in 1..2 : Isoformat(Dt(n)) = v)
         ELSE None

\* Optional[datetime]
OptDatetimeOk(v) == v = None \/ ParseDatetime(v) # None

Has(body, k) == k \in DOMAIN body

\* OrderItem: name, quantity >= 1, price >= 0, all required.
OrderItemValid(it) ==
    /\ it.t = "dict"
    /\ DOMAIN it.m = {"name", "quantity", "price"}
    /\ IsStr(it.m["name"])
    /\ Ge(it.m["quantity"], 1)
    /\ Ge(it.m["price"], 0)

\* Order: required fields present and well typed, optional ones well typed
\* when given.
OrderValid(body) ==
    /\ Has(body, "customer_id") /\ IsStr(body["customer_id"])
    /\ Has(body, "driver_id") => OptStr(body["driver_id"])
    /\ Has(body, "service_type") /\ InLiteral(body["service_type"], ServiceTypes)
    /\ Has(body, "items") =>
          /\ body["items"].t = "list"
          /\ \A i \in 1..Len(body["items"].l) : OrderItemValid(body["items"].l[i])
    /\ Has(body, "pickup_address") /\ IsStr(body["pickup_address"])
    /\ Has(body, "delivery_address") /\ IsStr(body["delivery_address"])
    /\ Has(body, "scheduled_at") => OptDatetimeOk(body["scheduled_at"])
    /\ Has(body, "notes") => OptStr(body["notes"])
    /\ Has(body, "status") => InLiteral(body["status"], OrderStatus)
    /\ Has(body, "payment_method") => InLiteral(body["payment_method"], PaymentMethods)
    /\ Has(body, "total") => Ge(body["total"], 0)

OrderFields == {"customer_id", "driver_id", "service_type", "items",
                "pickup_address", "delivery_address", "scheduled_at", "notes",
                "status", "payment_method", "total"}

\* The default of each Order field that has one.
OrderDefault(k) ==
    CASE k = "items" -> List(<<>>)
      [] k = "status" -> Str("PENDING")
      [] k = "payment_method" -> Str("cod")
      [] k = "total" -> Num(0)
      [] OTHER -> None

\* The validated Order of a valid body: every field, defaults filled in,
\* scheduled_at parsed (model_dump of it is this mapping).
Order(body) ==
    [k \in OrderFields |->
        IF ~Has(body, k) THEN OrderDefault(k)
        ELSE IF k = "scheduled_at" THEN ParseDatetime(body[k])
        ELSE body[k]]

\* Payment: order_id, amount >= 0, method, status (default PENDING),
\* transaction_id (optional).
PaymentValid(body) ==
    /\ Has(body, "order_id") /\ IsStr(body["order_id"])
    /\ Has(body, "amount") /\ Ge(body["amount"], 0)
    /\ Has(body, "method") /\ InLiteral(body["method"], PaymentMethods)
    /\ Has(body, "status") => InLiteral(body["status"], PaymentStatuses)
    /\ Has(body, "transaction_id") => OptStr(body["transaction_id"])

\* StatusUpdate: status, required, of Order.status's Literal type.
StatusUpdateValid(payload) ==
    Has(payload, "status") /\ InLiteral(payload["status"], OrderStatus)

---------------------------------------------------------------------------
(* The store and the persistence gateway *)

\* The number of the first identifier the store assigns.
FirstOid == 10

\* list_orders' default limit.
DefaultLimit == 50

\* The positions of the documents of coll whose _id is oid.
Matching(coll, oid) == {i \in 1..Len(coll) : coll[i]["_id"] = Oid(oid)}

\* A faulty variant: update_one with upsert, which inserts when nothing matches.
update_one_upsert(coll, oid, status) ==
    IF Matching(coll, oid) = {}
    THEN [matched_count |-> 0,
          coll |-> Append(coll, [_id |-> Oid(oid), status |-> Str(status)])]
    ELSE LET i == CHOOSE j \in Matching(coll, oid) : TRUE
         IN  [matched_count |-> 1,
              coll |-> [coll EXCEPT ![i] = [@ EXCEPT !["status"] = Str(status)]]]

\* A faulty variant: the filter is ignored and every document gets the status.
update_one_all(coll, oid, status) ==
    [matched_count |-> IF coll = <<>> THEN 0 ELSE 1,
     coll |-> [i \in 1..Len(coll) |-> [coll[i] EXCEPT !["status"] = Str(status)]]]

\* A faulty variant: $set replaces the document's other fields as well.
update_one_replace(coll, oid, status) ==
    IF Matching(coll, oid) = {}
    THEN [matched_count |-> 0, coll |-> coll]
    ELSE LET i == CHOOSE j \in Matching(coll, oid) : TRUE
         IN  [matched_count |-> 1,
              coll |-> [coll EXCEPT ![i] =
                          [k \in DOMAIN @ |->
                              IF k = "status" THEN Str(status)
                              ELSE IF k = "_id" THEN @[k]
                              ELSE None]]]

\* db["order"].update_one({"_id": oid}, {"$set": {"status": status}}):
\* the first matching document gets the status; nothing is inserted.
update_one(coll, oid, status) ==
    IF Matching(coll, oid) = {}
    THEN [matched_count |-> 0, coll |-> coll]
    ELSE LET i == CHOOSE j \in Matching(coll, oid) : \A k \in Matching(coll, oid) : j <= k
         IN  [matched_count |-> 1,
              coll |-> [coll EXCEPT ![i] = [@ EXCEPT !["status"] = Str(status)]]]

\* db["order"].find_one({"_id": oid}): the matching documents, first one first
\* (find_one answers the first, or None when there is none).
find_one(coll, oid) ==
    LET m == Matching(coll, oid)
    IN  IF m = {} THEN <<>>
        ELSE <<coll[CHOOSE j \in m : \A k \in m : j <= k]>>

\* create_document("order", order): fails without a store handle; otherwise
\* inserts the encoded record under a fresh identifier and answers the
\* identifier's string form.
create_document(handle, coll, oid, order) ==
    IF handle = "null"
    THEN [ok |-> FALSE, id |-> <<>>, coll |-> coll]
    ELSE [ok |-> TRUE, id |-> OidStr(oid),
          coll |-> Append(coll,
                      [k \in DOMAIN order \cup {"_id"} |->
                          IF k = "_id" THEN Oid(oid) ELSE order[k]])]

Min(a, b) == IF a <= b THEN a ELSE b

\* get_documents("order", {}, limit): up to limit documents in the store's
\* natural order; fails without a store handle.
get_documents(handle, coll, limit) ==
    IF handle = "null"
    THEN [ok |-> FALSE, docs |-> <<>>]
    ELSE [ok |-> TRUE, docs |-> SubSeq(coll, 1, Min(limit, Len(coll)))]

---------------------------------------------------------------------------
(* main.py: the handlers *)

\* What a handler step did: the request (op, worker, path id, body), the
\* answer (code, 0 while the request is still running; out, the documents of
\* the answer's body) and the number of store operations it performed.
Step(op, w, order_id, body, code, out, calls) ==
    [op |-> op, w |-> w, order_id |-> order_id, body |-> body,
     code |-> code, out |-> out, calls |-> calls]

NoReq == [order_id |-> <<>>, status |-> ""]

\* A faulty variant: the answer's status is the default, not the order's.
CreateOrderAnswerDefault(oid, order) == [id |-> Txt(oid), status |-> Str("PENDING")]

\* return {"id": oid, "status": order.status}
CreateOrderAnswer(oid, order) == [id |-> Txt(oid), status |-> order["status"]]

\* A faulty variant: a malformed id is answered as an unknown one.
PatchPrecheckNotFound(handle, order_id) ==
    IF handle = "null" THEN 500
    ELSE IF ~is_valid(order_id) THEN 404
    ELSE 0

\* update_order_status before its first store call: 500 without a store
\* handle, else 400 on a malformed id, else 0 (go on).
PatchPrecheck(handle, order_id) ==
    IF handle = "null" THEN 500
    ELSE IF ~is_valid(order_id) THEN 400
    ELSE 0

\* GET /api/orders?limit=N. An exception of get_documents is not caught: the
\* framework answers 500.
list_orders(w, limit) ==
    /\ pc[w] = "idle"
    /\ LET r == get_documents(db, store, limit)
       IN  last' = IF r.ok
                   THEN Step("GET", w, <<>>, [limit |-> Num(limit)], 200,
                             [i \in 1..Len(r.docs) |-> serialize_doc(r.docs[i])], 1)
                   ELSE Step("GET", w, <<>>, [limit |-> Num(limit)], 500, <<>>, 0)
    /\ UNCHANGED <<db, store, nextOid, pc, req, issued, codecvars>>

\* POST /api/orders. The body is validated into an Order first (422 if it is
\* not one); any exception of create_document is answered 500.
create_order(w, body) ==
    /\ pc[w] = "idle"
    /\ IF ~OrderValid(body)
       THEN /\ last' = Step("POST", w, <<>>, body, 422, <<>>, 0)
            /\ UNCHANGED <<store, nextOid, issued>>
       ELSE LET order == Order(body)
                r == create_document(db, store, NewObjectId(nextOid), order)
            IN  IF ~r.ok
                THEN /\ last' = Step("POST", w, <<>>, body, 500, <<>>, 0)
                     /\ UNCHANGED <<store, nextOid, issued>>
                ELSE /\ Len(store) < MaxOrders
                     /\ store' = r.coll
                     /\ nextOid' = nextOid + 1
                     /\ issued' = Append(issued, r.id)
                     /\ last' = Step("POST", w, <<>>, body, 201,
                                     <<CreateOrderAnswer(r.id, order)>>, 1)
    /\ UNCHANGED <<db, pc, req, codecvars>>

\* PATCH /api/orders/{order_id}/status, up to and including update_one. The
\* payload is validated into a StatusUpdate first (422 if it is not one).
update_order_status(w, order_id, payload) ==
    /\ pc[w] = "idle"
    /\ IF ~StatusUpdateValid(payload)
       THEN /\ last' = Step("PATCH", w, order_id, payload, 422, <<>>, 0)
            /\ UNCHANGED <<store, pc, req>>
       ELSE LET code == PatchPrecheck(db, order_id)
            IN  IF code # 0
                THEN /\ last' = Step("PATCH", w, order_id, payload, code, <<>>, 0)
                     /\ UNCHANGED <<store, pc, req>>
                ELSE LET oid == ObjectId(order_id)
                         res == update_one(store, oid, payload["status"].s)
                     IN  /\ store' = res.coll
                         /\ IF res.matched_count = 0
                            THEN /\ last' = Step("PATCH", w, order_id, payload,
                                                 404, <<>>, 1)
                                 /\ UNCHANGED <<pc, req>>
                            ELSE /\ last' = Step("PATCH", w, order_id, payload,
                                                 0, <<>>, 1)
                                 /\ pc' = [pc EXCEPT ![w] = "find"]
                                 /\ req' = [req EXCEPT ![w] =
                                              [order_id |-> order_id,
                                               status |-> payload["status"].s]]
    /\ UNCHANGED <<db, nextOid, issued, codecvars>>

\* The rest of update_order_status: find_one and the answer. serialize_doc of
\* None (no document found) raises, which the framework answers 500.
update_order_status_find(w) ==
    /\ pc[w] = "find"
    /\ LET oid == ObjectId(req[w].order_id)
           found == find_one(store, oid)
           payload == [status |-> Str(req[w].status)]
       IN  last' = IF found = <<>>
                   THEN Step("PATCH", w, req[w].order_id, payload, 500, <<>>, 1)
                   ELSE Step("PATCH", w, req[w].order_id, payload, 200,
                             <<serialize_doc(found[1])>>, 1)
    /\ pc' = [pc EXCEPT ![w] = "idle"]
    /\ req' = [req EXCEPT ![w] = NoReq]
    /\ UNCHANGED <<db, store, nextOid, issued, codecvars>>

\* Payment(**body): the record, or a ValidationError (code 422).
construct_payment(w, body) ==
    /\ pc[w] = "idle"
    /\ last' = Step("Payment", w, <<>>, body,
                    IF PaymentValid(body) THEN 200 ELSE 422, <<>>, 0)
    /\ UNCHANGED <<db, store, nextOid, pc, req, issued, codecvars>>

---------------------------------------------------------------------------
(* The requests the model sends *)

With(doc, k, v) == [x \in DOMAIN doc \cup {k} |-> IF x = k THEN v ELSE doc[x]]

Merge(a, b) == [x \in DOMAIN a \cup DOMAIN b |-> IF x \in DOMAIN b THEN b[x] ELSE a[x]]

Item(quantity, price) ==
    Map([name |-> Str("Shirt"), quantity |-> Num(quantity), price |-> Num(price)])

\* A body with the required fields only: every default applies.
MinimalOrder ==
    [customer_id |-> Str("u1"), service_type |-> Str("wash_fold"),
     pickup_address |-> Str("1 Main St"), delivery_address |-> Str("2 Side St")]

\* A body that sets every field.
FullOrder ==
    [customer_id |-> Str("u2"), driver_id |-> Str("d1"),
     service_type |-> Str("dry_clean"), items |-> List(<<Item(2, 5)>>),
     pickup_address |-> Str("3 High St"), delivery_address |-> Str("4 Low St"),
     scheduled_at |-> Str("2026-01-01T10:00:00"), notes |-> Str("fragile"),
     status |-> Str("DELIVERED"), payment_method |-> Str("card"),
     total |-> Num(10)]

OrderInputs ==
    {MinimalOrder, FullOrder,
     With(MinimalOrder, "total", Num(-1)),
     With(MinimalOrder, "items", List(<<Item(2, -1)>>)),
     With(MinimalOrder, "items", List(<<Item(-1, 5)>>)),
     With(FullOrder, "items", List(<<Item(2, 5), Item(0, 5)>>)),
     With(FullOrder, "status", Str("CANCELLED"))}

StatusInputs == {"PENDING", "IN_WASH", "CANCELLED"}

Upper(c) ==
    CASE c = "a" -> "A" [] c = "b" -> "B" [] c = "c" -> "C"
      [] c = "d" -> "D" [] c = "e" -> "E" [] c = "f" -> "F"
      [] OTHER -> c

NotAValidId == <<"n", "o", "t", "-", "a", "-", "v", "a", "l", "i", "d", "-", "i", "d">>

\* The ids of the orders the store can hold, one more that is never assigned,
\* the first one in upper case, and two malformed ones: one too short, one of
\* the right length with a character that is no hex digit.
IdInputs ==
    {OidStr(NewObjectId(n)) : n \in FirstOid..(FirstOid + MaxOrders)}
    \cup {[i \in 1..IdLen |-> Upper(OidStr(NewObjectId(FirstOid))[i])]}
    \cup {NotAValidId, [OidStr(NewObjectId(FirstOid)) EXCEPT ![1] = "g"]}

LimitInputs == {1, DefaultLimit}

PaymentInputs ==
    {[order_id |-> Str("o1"), amount |-> Num(a), method |-> Str("cod")] :
        a \in {-1, 0, 5}}

---------------------------------------------------------------------------
(* The system *)

Init ==
    /\ db \in {"live", "null"}
    /\ store = <<>>
    /\ nextOid = FirstOid
    /\ pc = [w \in Workers |-> "idle"]
    /\ req = [w \in Workers |-> NoReq]
    /\ last = Step("start", "", <<>>, EmptyDoc, 0, <<>>, 0)
    /\ issued = <<>>
    /\ cdoc = EmptyDoc
    /\ cstage = 0
    /\ cout = <<>>

Next ==
    \E w \in Workers :
        \/ \E limit \in LimitInputs : list_orders(w, limit)
        \/ \E body \in OrderInputs : create_order(w, body)
        \/ \E order_id \in IdInputs, s \in StatusInputs :
              update_order_status(w, order_id, [status |-> Str(s)])
        \/ update_order_status_find(w)
        \/ \E body \in PaymentInputs : construct_payment(w, body)

Spec == Init /\ [][Next]_vars

---------------------------------------------------------------------------
(* The codec on its own: serialize_doc applied to sample documents *)

Field(k, v) == [x \in {k} |-> v]

IdChoices == {EmptyDoc} \cup {Field("_id", Oid(NewObjectId(n))) : n \in FirstOid..(FirstOid + 1)}

PublicIdChoices == {EmptyDoc, Field("id", Str("legacy-7")), Field("id", Dt(2))}

TopLevelChoices ==
    {EmptyDoc, Field("scheduled_at", None), Field("scheduled_at", Dt(1)),
     Field("scheduled_at", Str("2026-01-01T10:00:00")), Field("day", Date(2))}

NestedChoices ==
    {EmptyDoc,
     Field("items", List(<<Item(2, 5)>>)),
     Field("history", List(<<Map([status |-> Str("PENDING"), at |-> Dt(2)])>>)),
     Field("window", Map([from |-> Dt(1), to |-> Dt(2)]))}

\* The orders POST /api/orders stores, as stored.
StoredSamples ==
    {create_document("live", <<>>, NewObjectId(FirstOid), Order(b)).coll[1] :
        b \in {MinimalOrder, FullOrder}}

SampleDocs ==
    {Merge(Merge(Merge(Merge(Field("status", Str("PENDING")), a), b), c), d) :
        a \in IdChoices, b \in PublicIdChoices, c \in TopLevelChoices, d \in NestedChoices}
    \cup StoredSamples

\* Encode of a document that is already a mapping: every field is emitted as
\* a key-value pair.
encode_doc(doc) == [k \in DOMAIN doc |-> doc[k]]

\* decode(d)
Decode ==
    /\ cstage = 0
    /\ cout' = <<serialize_doc(cdoc)>>
    /\ cstage' = 1
    /\ UNCHANGED <<cdoc, sysvars>>

\* decode(decode(d)): serialize_doc on its own output
DecodeAgain ==
    /\ cstage = 1
    /\ cout' = Append(cout, serialize_doc(cout[1]))
    /\ cstage' = 2
    /\ UNCHANGED <<cdoc, sysvars>>

\* decode(encode(decode(d)))
DecodeEncoded ==
    /\ cstage = 2
    /\ cout' = Append(cout, serialize_doc(encode_doc(cout[1])))
    /\ cstage' = 3
    /\ UNCHANGED <<cdoc, sysvars>>

InitCodec ==
    /\ db = "live"
    /\ store = <<>>
    /\ nextOid = FirstOid
    /\ pc = [w \in Workers |-> "idle"]
    /\ req = [w \in Workers |-> NoReq]
    /\ last = Step("start", "", <<>>, EmptyDoc, 0, <<>>, 0)
    /\ issued = <<>>
    /\ cdoc \in SampleDocs
    /\ cstage = 0
    /\ cout = <<>>

NextCodec == Decode \/ DecodeAgain \/ DecodeEncoded

SpecCodec == InitCodec /\ [][NextCodec]_vars

---------------------------------------------------------------------------
(* Properties *)

\* The step just taken is the first part of a PATCH by a worker that was idle
\* (as opposed to its find_one part).
PatchBegins == last'.op = "PATCH" /\ last'.w \in Workers /\ pc[last'.w] = "idle"

\* C1: every PATCH answered with a document (code 200) for a valid status s
\* answers a document whose status is exactly s, whatever other requests ran
\* in between.
C1_ReturnedStatusIsRequested ==
    (last.op = "PATCH" /\ last.code = 200) =>
        last.out[1]["status"] = last.body["status"]

\* C2 as stated: a PATCH with a well-formed payload whose id is malformed is
\* answered 400 and performs no store operation, whatever the store handle.
C2_MalformedIdAlways400 ==
    (last.op = "PATCH" /\ StatusUpdateValid(last.body) /\ ~is_valid(last.order_id)) =>
        (last.code = 400 /\ last.calls = 0)

\* C2, amended: a PATCH with a well-formed payload whose id is malformed
\* performs no store operation and leaves the collection as it is; it is
\* answered 400 when the store handle is live and 500 when it is null.
C2_MalformedIdRejectedBeforeStore ==
    [][(PatchBegins /\ StatusUpdateValid(last'.body) /\ ~is_valid(last'.order_id)) =>
          /\ last'.code = (IF db = "null" THEN 500 ELSE 400)
          /\ last'.calls = 0
          /\ store' = store
          /\ pc' = pc]_vars

C2_Witness ==
    /\ last.op = "PATCH" /\ last.order_id = NotAValidId
    /\ last.code = 400 /\ store # <<>>

\* C3: with a live store handle, a PATCH with a well-formed payload and a
\* well-formed id that matches no stored order is answered 404 and leaves the
\* collection exactly as it was.
C3_UnknownIdNotFound ==
    [][(/\ PatchBegins
        /\ db = "live"
        /\ StatusUpdateValid(last'.body)
        /\ is_valid(last'.order_id)
        /\ Matching(store, ObjectId(last'.order_id)) = {}) =>
          (last'.code = 404 /\ store' = store /\ pc' = pc)]_vars

C3_Witness ==
    /\ last.op = "PATCH" /\ last.code = 404
    /\ is_valid(last.order_id)
    /\ store # <<>>

\* The status a request body carries is given and is outside the enumeration.
ForeignStatus(body) ==
    Has(body, "status") /\ ~(IsStr(body["status"]) /\ body["status"].s \in OrderStatus)

StoredStatusesEnumerated ==
    \A i \in 1..Len(store) :
        IsStr(store[i]["status"]) /\ store[i]["status"].s \in OrderStatus

\* C4: every stored order's status is one of the six enumerated values; a
\* POST or PATCH carrying any other status is rejected by validation (422)
\* and leaves the collection unchanged.
C4_OnlyEnumeratedStatuses ==
    /\ []StoredStatusesEnumerated
    /\ [][(last'.op \in {"POST", "PATCH"} /\ ForeignStatus(last'.body)) =>
             (last'.code = 422 /\ last'.calls = 0 /\ store' = store)]_vars

C4_Witness ==
    /\ last.op = "PATCH" /\ last.body["status"] = Str("CANCELLED")
    /\ last.code = 422
    /\ \E i \in 1..Len(store) : store[i]["status"] = Str("IN_WASH")

\* The place of a status in the nominal progression (0 outside it).
Rank(v) ==
    IF IsStr(v) /\ v.s \in OrderStatus
    THEN CHOOSE i \in 1..Len(StatusOrder) : StatusOrder[i] = v.s
    ELSE 0

\* C5 as stated: a stored order's status never moves to an earlier value of
\* the progression PENDING, DRIVER_ASSIGNED, PICKED_UP, IN_WASH,
\* OUT_FOR_DELIVERY, DELIVERED.
C5_StatusOnlyAdvances ==
    [][\A i \in 1..Len(store) :
          Rank(store'[i]["status"]) >= Rank(store[i]["status"])]_vars

\* C5, amended: a stored order's status changes only by a PATCH addressed to
\* that order, and becomes the enumerated value that PATCH asked for, be it
\* later or earlier in the progression than the value it replaces.
C5_StatusSetToRequested ==
    [][\A i \in 1..Len(store) :
          store'[i]["status"] # store[i]["status"] =>
             /\ PatchBegins
             /\ is_valid(last'.order_id)
             /\ store[i]["_id"] = Oid(ObjectId(last'.order_id))
             /\ store'[i]["status"] = last'.body["status"]
             /\ Rank(store'[i]["status"]) > 0]_vars

\* An order created DELIVERED that a PATCH has taken back to PENDING.
C5_Witness ==
    /\ last.op = "PATCH" /\ last.body["status"] = Str("PENDING")
    /\ \E i \in 1..Len(store) :
          /\ store[i]["customer_id"] = FullOrder["customer_id"]
          /\ store[i]["status"] = Str("PENDING")
          /\ store[i]["_id"] = Oid(ObjectId(last.order_id))

\* C6: a PATCH that updates an order changes the status field of the addressed
\* order and nothing else in the collection; the document it answers carries
\* the id POST /api/orders answered when that order was created; a stored
\* order's identifier never changes.
C6_PatchChangesStatusOnly ==
    /\ [][(PatchBegins /\ last'.code = 0) =>
             /\ Len(store') = Len(store)
             /\ \A i \in 1..Len(store) :
                   store'[i] =
                      IF store[i]["_id"] = Oid(ObjectId(last'.order_id))
                      THEN [store[i] EXCEPT !["status"] = last'.body["status"]]
                      ELSE store[i]]_vars
    /\ [][/\ Len(store') >= Len(store)
          /\ \A i \in 1..Len(store) : store'[i]["_id"] = store[i]["_id"]]_vars
    /\ [](Len(issued) = Len(store) /\
          \A i \in 1..Len(store) : store[i]["_id"] = Oid(ObjectId(issued[i])))
    /\ []((last.op = "PATCH" /\ last.code = 200) =>
             \E i \in 1..Len(store) :
                /\ store[i]["_id"] = Oid(ObjectId(last.order_id))
                /\ last.out[1]["id"] = Txt(issued[i]))

\* With two orders stored, a PATCH addressed by another spelling (upper case)
\* of the first order's id has answered that order, its total as created,
\* under the id POST answered.
C6_Witness ==
    /\ last.op = "PATCH" /\ last.code = 200
    /\ Len(store) = 2
    /\ last.order_id # issued[1]
    /\ last.out[1]["id"] = Txt(issued[1])
    /\ last.out[1]["total"] = Num(10)

\* C7: decoding is idempotent: serialize_doc applied to its own output gives
\* that output again, and so does decoding the re-encoded output, for
\* documents with and without _id, id and timestamp values.
C7_DecodeIdempotent ==
    /\ cstage >= 2 => cout[2] = cout[1]
    /\ cstage >= 3 => cout[3] = cout[1]

C7_Witness ==
    /\ cstage = 3
    /\ {"_id", "id", "scheduled_at"} \subseteq DOMAIN cdoc
    /\ cdoc["scheduled_at"] = Dt(1)
    /\ cdoc["id"] = Dt(2)

\* The orders an accepted POST body has negative numbers in.
NegativeNumber(body) ==
    \/ Has(body, "total") /\ body["total"].t = "num" /\ body["total"].n < 0
    \/ /\ Has(body, "items") /\ body["items"].t = "list"
       /\ \E i \in 1..Len(body["items"].l) :
             LET m == body["items"].l[i].m
             IN  m["price"].n < 0 \/ m["quantity"].n < 0

StoredNumbersInRange ==
    \A i \in 1..Len(store) :
        /\ store[i]["total"].t = "num" /\ store[i]["total"].n >= 0
        /\ \A j \in 1..Len(store[i]["items"].l) :
              LET m == store[i]["items"].l[j].m
              IN  m["quantity"].n >= 1 /\ m["price"].n >= 0

\* C8: a POST with a valid Order body either inserts exactly one order and
\* answers 201 with the new order's id (24 hex characters, the string form of
\* its _id) and its stored status (PENDING when the body gave none), or,
\* without a store handle, answers 500 and leaves the collection unchanged.
C8_CreateOrderOutcome ==
    [][(last'.op = "POST" /\ OrderValid(last'.body)) =>
          \/ /\ last'.code = 201
             /\ db = "live"
             /\ Len(store') = Len(store) + 1
             /\ SubSeq(store', 1, Len(store)) = store
             /\ \A i \in 1..Len(store) : store[i]["_id"] # store'[Len(store')]["_id"]
             /\ Len(last'.out) = 1
             /\ DOMAIN last'.out[1] = {"id", "status"}
             /\ is_valid(last'.out[1]["id"].c)
             /\ last'.out[1]["id"] = Txt(OidStr(store'[Len(store')]["_id"].b))
             /\ last'.out[1]["status"] = store'[Len(store')]["status"]
             /\ ~Has(last'.body, "status") => last'.out[1]["status"] = Str("PENDING")
          \/ /\ last'.code = 500
             /\ db = "null"
             /\ store' = store]_vars

\* The second order was created from a body that sets its status.
C8_Witness ==
    /\ last.op = "POST" /\ last.code = 201
    /\ Len(store) = 2
    /\ last.out[1]["status"] = Str("DELIVERED")
    /\ store[1]["status"] = Str("PENDING")

\* C9: an Order with a negative total or an item of negative price or
\* quantity, and a Payment with a negative amount, fail validation; every
\* stored order has total >= 0 and items of quantity >= 1 and price >= 0.
C9_NoNegativeNumbers ==
    /\ (last.op = "POST" /\ NegativeNumber(last.body)) =>
          (last.code = 422 /\ last.calls = 0)
    /\ (last.op = "Payment" /\ last.body["amount"].n < 0) => last.code = 422
    /\ StoredNumbersInRange

C9_Witness ==
    /\ last.op = "POST" /\ last.code = 422
    /\ Has(last.body, "items") /\ NegativeNumber(last.body)
    /\ \E i \in 1..Len(store) : Len(store[i]["items"].l) > 0

\* Whether a value is or holds a timestamp, at any depth.
RECURSIVE HoldsTimestamp(_)
HoldsTimestamp(v) ==
    CASE v.t \in {"datetime", "date"} -> TRUE
      [] v.t = "list" -> \E i \in 1..Len(v.l) : HoldsTimestamp(v.l[i])
      [] v.t = "dict" -> \E k \in DOMAIN v.m : HoldsTimestamp(v.m[k])
      [] OTHER -> FALSE

DecodedTopLevel ==
    cstage >= 1 =>
        LET out == cout[1]
            kept == DOMAIN cdoc \ {"_id"}
        IN  /\ "_id" \notin DOMAIN out
            /\ "_id" \in DOMAIN cdoc =>
                  /\ DOMAIN out = kept \cup {"id"}
                  /\ out["id"] = Txt(OidStr(cdoc["_id"].b))
            /\ "_id" \notin DOMAIN cdoc => DOMAIN out = kept
            /\ \A k \in kept :
                  (k = "id" /\ "_id" \in DOMAIN cdoc) \/
                  out[k] = CASE cdoc[k].t = "datetime" ->
                                    Str(IsoText(Dt(cdoc[k].n)))
                             [] cdoc[k].t = "date" ->
                                    Str(IsoText(Date(cdoc[k].n)))
                             [] OTHER -> cdoc[k]

====
